---- MODULE Spec2Model ----
(***************************************************************************)
(* Model of the content-rewriting proxy of src/main.go: the request        *)
(* accounting (DebugStats, the debug middleware, /debug/stats, the stats   *)
(* ticker), the URL resolver makeAbsoluteURL, and the GET / handler with   *)
(* its fetch (redirect policy) and its rewrite pass.                       *)
(*                                                                         *)
(* Strings are sequences of one-character strings, so that the prefix,     *)
(* suffix, substring and split operations of Go's strings package are      *)
(* computed, not assumed.                                                  *)
(***************************************************************************)
EXTENDS Integers, Sequences, FiniteSets, TLC

VARIABLES
    \* ---- URL resolver, applied to one (base, ref) pair
    rBase, rRef, rOut, rDone,
    \* ---- request accounting (the global `stats` and the goroutines using it)
    Enabled,         \* stats.Enabled, set once at startup
    holder,          \* owner of the embedded sync.Mutex, or NoOne
    RequestCount,    \* stats.RequestCount
    BytesProcessed,  \* stats.BytesProcessed
    RequestLog,      \* stats.RequestLog
    requestURI,      \* per worker: the byte arrays its RequestCtx kept the request URI in
    wpc,             \* per request worker: where it is in middleware/handler/logRequest
    wRoute,          \* per worker: route of the request in hand
    wEntry,          \* per worker: the RequestLogEntry built by the middleware
    wResp,           \* per worker: the /debug/stats JSON body written, if any
    wLogged,         \* per worker: times the request in hand was appended to the log
    tpc,             \* the stats ticker goroutine (or a caller of printStats)
    served,          \* requests and direct calls started so far
    statsServed,     \* /debug/stats requests started so far
    completed,       \* per entry value: logRequest calls that returned after recording it
    \* ---- one GET /?url=... request
    hpc,             \* where the handler is
    rawURL,          \* c.Query("url")
    url,             \* the target URL once it carries a scheme (the rewrite's base)
    videoID,         \* extractVideoID(url), for a youtube.com / youtu.be target
    chain,           \* redirects the upstream answers with (Endless: a loop)
    hopsLeft,        \* redirects still ahead of the fetch
    reqs,            \* len(reqs) inside client.Do: requests made so far
    doErr,           \* the error client.Do returns ("nil": none)
    metas,           \* the meta tags of the document's head
    doc,             \* the parsed document, rewritten in place
    docIn,           \* the document as parsed
    cssOutcome,      \* per element: outcome of its stylesheet fetch ("none": no fetch)
    jsOutcome,       \* per element: outcome of its script fetch ("none": no fetch)
    steps,           \* pipeline steps run so far, in order
    failedAt,        \* the step that failed ("none": no failure)
    response         \* what the handler rendered

resolveVars == <<rBase, rRef, rOut, rDone>>

statsVars == <<RequestCount, BytesProcessed, RequestLog>>

acctVars == <<Enabled, holder, statsVars, requestURI, wpc, wRoute, wEntry, wResp, wLogged,
              tpc, served, statsServed, completed>>

pageReqVars == <<rawURL, url, videoID>>

pageFetchVars == <<chain, hopsLeft, reqs, doErr>>

pageDocVars == <<metas, doc, docIn, cssOutcome, jsOutcome>>

pageVars == <<hpc, pageReqVars, pageFetchVars, pageDocVars, steps, failedAt, response>>

vars == <<resolveVars, acctVars, pageVars>>

nonAcctVars == <<resolveVars, pageVars>>

nonPageVars == <<resolveVars, acctVars>>

(***************************************************************************)
(* String literals of the source.                                          *)
(***************************************************************************)
sHttpScheme == <<"h", "t", "t", "p", ":", "/", "/">>  \* "http://"
sHttpsScheme == <<"h", "t", "t", "p", "s", ":", "/", "/">>  \* "https://"
sHttp == <<"h", "t", "t", "p">>  \* "http"
sSlash == <<"/">>  \* "/"
sJavascript == <<"j", "a", "v", "a", "s", "c", "r", "i", "p", "t", ":">>  \* "javascript:"
sHash == <<"#">>  \* "#"
sYoutubeCom == <<"y", "o", "u", "t", "u", "b", "e", ".", "c", "o", "m">>  \* "youtube.com"
sYoutuBe == <<"y", "o", "u", "t", "u", ".", "b", "e">>  \* "youtu.be"
sWatchFull == <<"y", "o", "u", "t", "u", "b", "e", ".", "c", "o", "m", "/", "w", "a", "t", "c", "h", "?", "v", "=">>  \* "youtube.com/watch?v="
sWatch == <<"w", "a", "t", "c", "h", "?", "v", "=">>  \* "watch?v="
sShort == <<"y", "o", "u", "t", "u", ".", "b", "e", "/">>  \* "youtu.be/"
sAmp == <<"&">>  \* "&"
sProxy == <<"/", "?", "u", "r", "l", "=">>  \* "/?url="
sYTPlayer == <<"Y", "T", ".", "P", "l", "a", "y", "e", "r">>  \* "YT.Player"

(***************************************************************************)
(* Go's strings package, on sequences of characters.                       *)
(***************************************************************************)
HasPrefix(s, p) ==
    /\ Len(p) <= Len(s)
    /\ SubSeq(s, 1, Len(p)) = p

HasSuffix(s, p) ==
    /\ Len(p) <= Len(s)
    /\ SubSeq(s, Len(s) - Len(p) + 1, Len(s)) = p

\* strings.TrimPrefix: removes ONE leading occurrence of p, if there is one.
TrimPrefix(s, p) ==
    IF HasPrefix(s, p) THEN SubSeq(s, Len(p) + 1, Len(s)) ELSE s

\* strings.TrimSuffix: removes ONE trailing occurrence of p, if there is one.
TrimSuffix(s, p) ==
    IF HasSuffix(s, p) THEN SubSeq(s, 1, Len(s) - Len(p)) ELSE s

\* strings.Index, 1-based; 0 when sub does not occur in s.
Index(s, sub) ==
    LET hits == {i \in 1..(Len(s) - Len(sub) + 1) : SubSeq(s, i, i + Len(sub) - 1) = sub}
    IN  IF hits = {} THEN 0 ELSE CHOOSE i \in hits : \A j \in hits : i <= j

Contains(s, sub) == Index(s, sub) # 0

\* strings.Split for a non-empty separator: the pieces between the
\* non-overlapping occurrences of sep, found from the left.
RECURSIVE Split(_, _)
Split(s, sep) ==
    LET i == Index(s, sep)
    IN  IF i = 0
        THEN <<s>>
        ELSE <<SubSeq(s, 1, i - 1)>> \o Split(SubSeq(s, i + Len(sep), Len(s)), sep)

(***************************************************************************)
(* ResourceProcessor.makeAbsoluteURL (the spec's resolve(base, ref)).      *)
(***************************************************************************)
\* Mutant: the base's trailing slash is not trimmed before the join.
makeAbsoluteURL_NoTrimSuffix(baseURL, resourceURL) ==
    IF HasPrefix(resourceURL, sHttpScheme) \/ HasPrefix(resourceURL, sHttpsScheme)
    THEN resourceURL
    ELSE baseURL \o sSlash \o TrimPrefix(resourceURL, sSlash)

makeAbsoluteURL(baseURL, resourceURL) ==
    IF HasPrefix(resourceURL, sHttpScheme) \/ HasPrefix(resourceURL, sHttpsScheme)
    THEN resourceURL
    ELSE TrimSuffix(baseURL, sSlash) \o sSlash \o TrimPrefix(resourceURL, sSlash)

(***************************************************************************)
(* Inputs of the resolver: bases are target URLs after the handler's       *)
(* scheme normalisation (they start with http:// or https://), with 0 to   *)
(* MaxSlashes trailing slashes; refs are attribute values with 0 to        *)
(* MaxSlashes leading slashes, absolute URLs, and near-absolute values.    *)
(***************************************************************************)
MaxSlashes == 2

Slashes(n) == [i \in 1..n |-> "/"]

ResolveBaseStems ==
    { sHttpScheme \o <<"a">>,
      sHttpsScheme \o <<"a">>,
      sHttpScheme \o <<"a", "/", "p">> }

ResolveRefStems ==
    { <<>>, <<"x">>, <<"x", "/", "y">>, <<"x", "/">> }

ResolveBases == { b \o Slashes(n) : b \in ResolveBaseStems, n \in 0..MaxSlashes }

ResolveRefs ==
    { Slashes(n) \o r : r \in ResolveRefStems, n \in 0..MaxSlashes }
    \cup { sHttpScheme \o <<"b", "/", "x">>,
           sHttpsScheme \o <<"b", "/", "x">>,
           sHttpScheme,
           sHttp \o <<"d">>,
           <<"h", "t", "t", "p", ":", "/", "x">>,
           <<"H", "T", "T", "P", ":", "/", "/", "b">> }

ResolveStart ==
    /\ rBase \in ResolveBases
    /\ rRef \in ResolveRefs
    /\ rOut = <<>>
    /\ rDone = FALSE

ResolveIdle ==
    /\ rBase = <<>>
    /\ rRef = <<>>
    /\ rOut = <<>>
    /\ rDone = TRUE

\* One call rp.makeAbsoluteURL(ref) on a processor built for base.
Resolve ==
    /\ ~rDone
    /\ rOut' = makeAbsoluteURL(rBase, rRef)
    /\ rDone' = TRUE
    /\ UNCHANGED <<rBase, rRef>>
    /\ UNCHANGED <<acctVars, pageVars>>

(***************************************************************************)
(* Request accounting: DebugStats, the debug middleware, the /debug/stats  *)
(* handler and the stats ticker.                                           *)
(*                                                                         *)
(* Each request worker (fiber runs one per inbound request) walks          *)
(*   idle -> parse -> next -> [stats_lock -> stats_json -> stats_ret]      *)
(*        -> after_next                                                    *)
(*        -> lr_check -> lr_lock -> lr_count -> lr_bytes -> lr_append      *)
(*        -> lr_unlock -> lr_done -> idle                                  *)
(* one statement of the source per step, so that the steps of different    *)
(* workers interleave as the goroutines' statements do.                    *)
(***************************************************************************)
Workers == {"w1", "w2"}
Ticker == "ticker"
NoOne == "nobody"
\* A Go string: a pointer and a length. `ctx` and `arr` name the byte array
\* pointed into when it is one of a RequestCtx's request-URI arrays; a string
\* with memory of its own (ctx = NoOne) carries its bytes in `text`.
OwnString(t) == [ctx |-> NoOne, arr |-> 0, len |-> Len(t), text |-> t]
BufferString(w, a, n) == [ctx |-> w, arr |-> a, len |-> n, text |-> <<>>]

NoEntry == [URL |-> OwnString(<<>>), Status |-> 0, Size |-> 0]
NoResp == [kind |-> "none"]
PanicResp == [kind |-> "panic"]

\* Bounds of the accounting model: requests (and direct calls) started in a
\* run, and how many of them may be GET /debug/stats.
MaxRequests == 6
MaxStatsRequests == 2
\* The same for the runs checked for liveness.
LiveMaxRequests == 3
LiveMaxStatsRequests == 2
\* The same for the runs with direct calls of logRequest and printStats.
CallsMaxRequests == 4
CallsMaxStatsRequests == 1

\* The length /debug/stats slices the log to.
SnapshotLimit == 10

Routes == {"page", "stats"}

uPage == <<"/", "?", "u">>  \* "/?u"
uStats == <<"/", "d", "e", "b", "u", "g", "/", "s", "t", "a", "t", "s">>  \* "/debug/stats"

\* The request URI of a request to the route.
URIOf(route) == IF route = "stats" THEN uStats ELSE uPage

\* Allocation sizes of small byte arrays (Go's size classes).
SizeClasses == {8, 16, 24, 32}
roundupsize(n) == CHOOSE c \in SizeClasses : c >= n /\ \A d \in SizeClasses : d >= n => c <= d

\* The capacity append gives the new array when `needed` bytes do not fit
\* in an array of capacity oldCap.
growslice(oldCap, needed) ==
    roundupsize(IF needed > 2 * oldCap THEN needed ELSE 2 * oldCap)

\* The array a RequestCtx holds its request URI in (none before its first
\* request), and its capacity.
CurrentArray(w) == Len(requestURI[w])
CurrentCap(w) == IF requestURI[w] = <<>> THEN 0 ELSE requestURI[w][CurrentArray(w)].cap

\* append(requestURI[:0], uri...) writes in place when uri fits.
Fits(w, uri) == Len(uri) <= CurrentCap(w)

\* The bytes of an array once uri is copied over its start.
Overwrite(old, new) ==
    [i \in 1..(IF Len(old) > Len(new) THEN Len(old) ELSE Len(new)) |->
        IF i <= Len(new) THEN new[i] ELSE old[i]]

\* The bytes a string shows now.
Str(u) ==
    IF u.ctx = NoOne
    THEN u.text
    ELSE SubSeq(requestURI[u.ctx][u.arr].bytes, 1, u.len)

\* c.OriginalURL(): fiber.New is called without Immutable, so the string
\* returned is not a copy: it points into the array the RequestCtx holds the
\* request URI in.
OriginalURL(w) == BufferString(w, CurrentArray(w), Len(URIOf(wRoute[w])))

\* The entry the middleware builds once c.Next() has returned: the request's
\* URL, the response status and the length of the response body. The page
\* route answers 200 with a body; /debug/stats answers 200 with its JSON.
EntryOf(w, route) ==
    [URL |-> OriginalURL(w), Status |-> 200,
     Size |-> IF route = "stats" THEN 1 ELSE 2]

\* An entry a direct caller of logRequest passes: its URL is the caller's
\* own string.
DirectEntryOf(route) ==
    [URL |-> OwnString(URIOf(route)), Status |-> 200,
     Size |-> IF route = "stats" THEN 1 ELSE 2]

\* What an entry reads as: its fields, the URL by its bytes.
Shown(e) == [URL |-> Str(e.URL), Status |-> e.Status, Size |-> e.Size]

\* The entries passed to logRequest, as they read when passed.
Entries == {Shown(DirectEntryOf(r)) : r \in Routes}

\* A worker whose request URI is being copied into the array in place.
Writing(w) == wpc[w] = "parse" /\ Fits(w, URIOf(wRoute[w]))

\* What a read of the string can return. The copy of a request URI into the
\* array takes no lock: a read that runs while the array is being written
\* may find each byte as it was or as it will be.
Readings(u) ==
    IF u.ctx # NoOne /\ u.arr = CurrentArray(u.ctx) /\ Writing(u.ctx)
    THEN LET old == Str(u)
             new == SubSeq(Overwrite(requestURI[u.ctx][u.arr].bytes,
                                     URIOf(wRoute[u.ctx])), 1, u.len)
             D == {i \in 1..u.len : old[i] # new[i]}
         IN  {[i \in 1..u.len |-> IF i \in S THEN new[i] ELSE old[i]] : S \in SUBSET D}
    ELSE {Str(u)}

\* The bodies c.JSON can write for a slice of the log.
RECURSIVE Serialised(_)
Serialised(items) ==
    IF items = <<>>
    THEN {<<>>}
    ELSE {<<[Shown(Head(items)) EXCEPT !.URL = t]>> \o rest :
            t \in Readings(Head(items).URL), rest \in Serialised(Tail(items))}

max_NoClamp(a, b) == b

\* func max(a, b int) int
max(a, b) == IF a > b THEN a ELSE b

\* Go's s[lo:] on a slice: a run-time panic when lo is out of range.
SliceFrom(s, lo) ==
    IF lo < 0 \/ lo > Len(s)
    THEN PanicResp
    ELSE [kind |-> "slice", items |-> SubSeq(s, lo + 1, Len(s))]

\* sync.Mutex: Lock blocks while the mutex is held (by anyone, the caller
\* included: it is not reentrant); Unlock releases it.
Lock_NoExclusion(p) ==
    /\ holder' = p

Lock(p) ==
    /\ holder = NoOne
    /\ holder' = p

Unlock(p) ==
    /\ holder = p
    /\ holder' = NoOne

Goto(w, to) == wpc' = [wpc EXCEPT ![w] = to]

\* A request arrives on the worker's connection.
StartRequest(w, maxReq, maxStats) ==
    /\ wpc[w] = "idle"
    /\ served < maxReq
    /\ \E r \in Routes :
        /\ r = "stats" => statsServed < maxStats
        /\ wRoute' = [wRoute EXCEPT ![w] = r]
        /\ statsServed' = IF r = "stats" THEN statsServed + 1 ELSE statsServed
    /\ served' = served + 1
    /\ wLogged' = [wLogged EXCEPT ![w] = 0]
    /\ Goto(w, "parse")
    /\ UNCHANGED nonAcctVars
    /\ UNCHANGED requestURI
    /\ UNCHANGED <<Enabled, holder, statsVars, wEntry, wResp, tpc, completed>>

\* The request line is parsed: the URI is copied to the start of the array
\* the RequestCtx keeps it in, or to a new array when it does not fit (the
\* old array stays as it is, with the strings that point into it). Then the
\* debug middleware (app.Use) runs: it reads stats.Enabled and, when set,
\* notes the start time, and calls c.Next().
ParseRequest(w) ==
    /\ wpc[w] = "parse"
    /\ LET uri == URIOf(wRoute[w])
       IN  requestURI' = [requestURI EXCEPT ![w] =
                IF Fits(w, uri)
                THEN [@ EXCEPT ![CurrentArray(w)].bytes = Overwrite(@, uri)]
                ELSE Append(@, [bytes |-> uri,
                                cap |-> growslice(CurrentCap(w), Len(uri))])]
    /\ Goto(w, "next")
    /\ UNCHANGED nonAcctVars
    /\ UNCHANGED <<Enabled, holder, statsVars, wRoute, wEntry, wResp, wLogged,
                   tpc, served, statsServed, completed>>

\* c.Next(): the route's handler runs. /debug/stats is registered only when
\* accounting is enabled (otherwise the router answers 404); its handler
\* starts with stats.Lock(). For every other route this step is the
\* handler's return, response written; with accounting disabled the
\* middleware returns c.Next() as is. (A handler waiting on http.Get, which
\* has no timeout, may never take this step.)
CallNext(w) ==
    /\ wpc[w] = "next"
    /\ IF wRoute[w] = "stats" /\ Enabled
       THEN Goto(w, "stats_lock")
       ELSE Goto(w, IF Enabled THEN "after_next" ELSE "lr_done")
    /\ UNCHANGED nonAcctVars
    /\ UNCHANGED requestURI
    /\ UNCHANGED <<Enabled, holder, statsVars, wRoute, wEntry, wResp, wLogged,
                   tpc, served, statsServed, completed>>

\* /debug/stats: stats.Lock()
StatsLock(w) ==
    /\ wpc[w] = "stats_lock"
    /\ Lock(w)
    /\ Goto(w, "stats_json")
    /\ UNCHANGED nonAcctVars
    /\ UNCHANGED requestURI
    /\ UNCHANGED <<Enabled, statsVars, wRoute, wEntry, wResp, wLogged,
                   tpc, served, statsServed, completed>>

\* /debug/stats: c.JSON(fiber.Map{...}) serialises the counters and
\* RequestLog[max(0, len(RequestLog)-10):] while the lock is held. The lock
\* does not cover the bytes the URL strings point to.
StatsJSON(w) ==
    /\ wpc[w] = "stats_json"
    /\ LET last == SliceFrom(RequestLog, max(0, Len(RequestLog) - SnapshotLimit))
       IN  IF last = PanicResp
           THEN wResp' = [wResp EXCEPT ![w] = PanicResp]
           ELSE \E body \in Serialised(last.items) :
                   wResp' = [wResp EXCEPT ![w] =
                       [kind |-> "json",
                        requestCount |-> RequestCount,
                        bytesProcessed |-> BytesProcessed,
                        lastRequests |-> body]]
    /\ Goto(w, "stats_ret")
    /\ UNCHANGED nonAcctVars
    /\ UNCHANGED requestURI
    /\ UNCHANGED <<Enabled, holder, statsVars, wRoute, wEntry, wLogged,
                   tpc, served, statsServed, completed>>

\* Mutant: the handler returns without its deferred stats.Unlock().
StatsReturn_NoUnlock(w) ==
    /\ wpc[w] = "stats_ret"
    /\ Goto(w, "after_next")
    /\ UNCHANGED nonAcctVars
    /\ UNCHANGED requestURI
    /\ UNCHANGED <<Enabled, holder, statsVars, wRoute, wEntry, wResp, wLogged,
                   tpc, served, statsServed, completed>>

\* /debug/stats returns: the deferred stats.Unlock() runs, then control is
\* back in the middleware, after c.Next().
StatsReturn(w) ==
    /\ wpc[w] = "stats_ret"
    /\ Unlock(w)
    /\ Goto(w, "after_next")
    /\ UNCHANGED nonAcctVars
    /\ UNCHANGED requestURI
    /\ UNCHANGED <<Enabled, statsVars, wRoute, wEntry, wResp, wLogged,
                   tpc, served, statsServed, completed>>

\* The middleware builds the RequestLogEntry and calls stats.logRequest.
BuildEntry(w) ==
    /\ wpc[w] = "after_next"
    /\ wEntry' = [wEntry EXCEPT ![w] = EntryOf(w, wRoute[w])]
    /\ Goto(w, "lr_check")
    /\ UNCHANGED nonAcctVars
    /\ UNCHANGED requestURI
    /\ UNCHANGED <<Enabled, holder, statsVars, wRoute, wResp, wLogged,
                   tpc, served, statsServed, completed>>

\* Mutant: logRequest without its `if !ds.Enabled { return }`.
LogRequestCheck_NoGuard(w) ==
    /\ wpc[w] = "lr_check"
    /\ Goto(w, "lr_lock")
    /\ UNCHANGED nonAcctVars
    /\ UNCHANGED requestURI
    /\ UNCHANGED <<Enabled, holder, statsVars, wRoute, wEntry, wResp, wLogged,
                   tpc, served, statsServed, completed>>

\* logRequest: if !ds.Enabled { return }
LogRequestCheck(w) ==
    /\ wpc[w] = "lr_check"
    /\ Goto(w, IF Enabled THEN "lr_lock" ELSE "lr_done")
    /\ UNCHANGED nonAcctVars
    /\ UNCHANGED requestURI
    /\ UNCHANGED <<Enabled, holder, statsVars, wRoute, wEntry, wResp, wLogged,
                   tpc, served, statsServed, completed>>

\* logRequest: ds.Lock()
LogRequestLock(w) ==
    /\ wpc[w] = "lr_lock"
    /\ Lock(w)
    /\ Goto(w, "lr_count")
    /\ UNCHANGED nonAcctVars
    /\ UNCHANGED requestURI
    /\ UNCHANGED <<Enabled, statsVars, wRoute, wEntry, wResp, wLogged,
                   tpc, served, statsServed, completed>>

\* logRequest: ds.RequestCount++
LogRequestCount(w) ==
    /\ wpc[w] = "lr_count"
    /\ RequestCount' = RequestCount + 1
    /\ Goto(w, "lr_bytes")
    /\ UNCHANGED nonAcctVars
    /\ UNCHANGED requestURI
    /\ UNCHANGED <<Enabled, holder, BytesProcessed, RequestLog, wRoute, wEntry,
                   wResp, wLogged, tpc, served, statsServed, completed>>

\* Mutant: the byte counter counts entries, not their sizes.
LogRequestBytes_PlusOne(w) ==
    /\ wpc[w] = "lr_bytes"
    /\ BytesProcessed' = BytesProcessed + 1
    /\ Goto(w, "lr_append")
    /\ UNCHANGED nonAcctVars
    /\ UNCHANGED requestURI
    /\ UNCHANGED <<Enabled, holder, RequestCount, RequestLog, wRoute, wEntry,
                   wResp, wLogged, tpc, served, statsServed, completed>>

\* logRequest: ds.BytesProcessed += entry.Size
LogRequestBytes(w) ==
    /\ wpc[w] = "lr_bytes"
    /\ BytesProcessed' = BytesProcessed + wEntry[w].Size
    /\ Goto(w, "lr_append")
    /\ UNCHANGED nonAcctVars
    /\ UNCHANGED requestURI
    /\ UNCHANGED <<Enabled, holder, RequestCount, RequestLog, wRoute, wEntry,
                   wResp, wLogged, tpc, served, statsServed, completed>>

\* logRequest: ds.RequestLog = append(ds.RequestLog, entry), then log.Printf
LogRequestAppend(w) ==
    /\ wpc[w] = "lr_append"
    /\ RequestLog' = Append(RequestLog, wEntry[w])
    /\ wLogged' = [wLogged EXCEPT ![w] = @ + 1]
    /\ Goto(w, "lr_unlock")
    /\ UNCHANGED nonAcctVars
    /\ UNCHANGED requestURI
    /\ UNCHANGED <<Enabled, holder, RequestCount, BytesProcessed, wRoute, wEntry,
                   wResp, tpc, served, statsServed, completed>>

\* logRequest returns: the deferred ds.Unlock() runs.
LogRequestUnlock(w) ==
    /\ wpc[w] = "lr_unlock"
    /\ Unlock(w)
    /\ completed' = [completed EXCEPT ![Shown(wEntry[w])] = @ + 1]
    /\ Goto(w, "lr_done")
    /\ UNCHANGED nonAcctVars
    /\ UNCHANGED requestURI
    /\ UNCHANGED <<Enabled, statsVars, wRoute, wEntry, wResp, wLogged,
                   tpc, served, statsServed>>

\* The middleware returns (`return err`, or `return c.Next()` when
\* accounting is disabled) and the worker is free for the next request.
MiddlewareReturn(w) ==
    /\ wpc[w] = "lr_done"
    /\ wRoute[w] # "direct"
    /\ wRoute' = [wRoute EXCEPT ![w] = "none"]
    /\ wEntry' = [wEntry EXCEPT ![w] = NoEntry]
    /\ wResp' = [wResp EXCEPT ![w] = NoResp]
    /\ Goto(w, "idle")
    /\ UNCHANGED nonAcctVars
    /\ UNCHANGED requestURI
    /\ UNCHANGED <<Enabled, holder, statsVars, wLogged, tpc, served,
                   statsServed, completed>>

\* The ticker goroutine (started only when accounting is enabled) receives
\* from ticker.C and calls stats.printStats().
Tick ==
    /\ tpc = "wait"
    /\ tpc' = "ps_check"
    /\ UNCHANGED nonAcctVars
    /\ UNCHANGED requestURI
    /\ UNCHANGED <<Enabled, holder, statsVars, wpc, wRoute, wEntry, wResp,
                   wLogged, served, statsServed, completed>>

\* Where printStats returns to: the ticker's loop when the goroutine runs.
TickerHome == IF Enabled THEN "wait" ELSE "off"

\* Mutant: printStats without its `if !ds.Enabled { return }`.
PrintStatsCheck_NoGuard ==
    /\ tpc = "ps_check"
    /\ tpc' = "ps_lock"
    /\ UNCHANGED nonAcctVars
    /\ UNCHANGED requestURI
    /\ UNCHANGED <<Enabled, holder, statsVars, wpc, wRoute, wEntry, wResp,
                   wLogged, served, statsServed, completed>>

\* printStats: if !ds.Enabled { return }
PrintStatsCheck ==
    /\ tpc = "ps_check"
    /\ tpc' = IF Enabled THEN "ps_lock" ELSE TickerHome
    /\ UNCHANGED nonAcctVars
    /\ UNCHANGED requestURI
    /\ UNCHANGED <<Enabled, holder, statsVars, wpc, wRoute, wEntry, wResp,
                   wLogged, served, statsServed, completed>>

\* printStats: ds.Lock()
PrintStatsLock ==
    /\ tpc = "ps_lock"
    /\ Lock(Ticker)
    /\ tpc' = "ps_print"
    /\ UNCHANGED nonAcctVars
    /\ UNCHANGED requestURI
    /\ UNCHANGED <<Enabled, statsVars, wpc, wRoute, wEntry, wResp, wLogged,
                   served, statsServed, completed>>

\* printStats: the log.Printf lines read the counters; then the deferred
\* ds.Unlock() runs.
PrintStatsPrint ==
    /\ tpc = "ps_print"
    /\ Unlock(Ticker)
    /\ tpc' = TickerHome
    /\ UNCHANGED nonAcctVars
    /\ UNCHANGED requestURI
    /\ UNCHANGED <<Enabled, statsVars, wpc, wRoute, wEntry, wResp, wLogged,
                   served, statsServed, completed>>

\* A direct call stats.logRequest(entry), as the contract record(entry)
\* allows in either mode.
CallLogRequest(w, maxReq) ==
    /\ wpc[w] = "idle"
    /\ served < maxReq
    /\ served' = served + 1
    /\ \E r \in Routes : wEntry' = [wEntry EXCEPT ![w] = DirectEntryOf(r)]
    /\ wRoute' = [wRoute EXCEPT ![w] = "direct"]
    /\ wLogged' = [wLogged EXCEPT ![w] = 0]
    /\ Goto(w, "lr_check")
    /\ UNCHANGED nonAcctVars
    /\ UNCHANGED requestURI
    /\ UNCHANGED <<Enabled, holder, statsVars, wResp, tpc, statsServed, completed>>

\* The direct call returns to its caller.
CallLogRequestReturn(w) ==
    /\ wpc[w] = "lr_done"
    /\ wRoute[w] = "direct"
    /\ wRoute' = [wRoute EXCEPT ![w] = "none"]
    /\ wEntry' = [wEntry EXCEPT ![w] = NoEntry]
    /\ Goto(w, "idle")
    /\ UNCHANGED nonAcctVars
    /\ UNCHANGED requestURI
    /\ UNCHANGED <<Enabled, holder, statsVars, wResp, wLogged, tpc, served,
                   statsServed, completed>>

\* A direct call stats.printStats(), as the contract tick() allows in either
\* mode, by a caller that is not inside printStats already.
CallPrintStats ==
    /\ tpc \in {"off", "wait"}
    /\ tpc' = "ps_check"
    /\ UNCHANGED nonAcctVars
    /\ UNCHANGED requestURI
    /\ UNCHANGED <<Enabled, holder, statsVars, wpc, wRoute, wEntry, wResp,
                   wLogged, served, statsServed, completed>>

\* The state main() leaves once flags are parsed: Enabled as configured,
\* empty counters and log, the ticker goroutine started iff Enabled.
AcctStart(enabledChoices) ==
    /\ Enabled \in enabledChoices
    /\ holder = NoOne
    /\ RequestCount = 0
    /\ BytesProcessed = 0
    /\ RequestLog = <<>>
    /\ requestURI = [w \in Workers |-> <<>>]
    /\ wpc = [w \in Workers |-> "idle"]
    /\ wRoute = [w \in Workers |-> "none"]
    /\ wEntry = [w \in Workers |-> NoEntry]
    /\ wResp = [w \in Workers |-> NoResp]
    /\ wLogged = [w \in Workers |-> 0]
    /\ tpc = IF Enabled THEN "wait" ELSE "off"
    /\ served = 0
    /\ statsServed = 0
    /\ completed = [e \in Entries |-> 0]

WorkerStep(w, maxReq, maxStats) ==
    \/ StartRequest(w, maxReq, maxStats)
    \/ ParseRequest(w)
    \/ CallNext(w)
    \/ StatsLock(w)
    \/ StatsJSON(w)
    \/ StatsReturn(w)
    \/ BuildEntry(w)
    \/ LogRequestCheck(w)
    \/ LogRequestLock(w)
    \/ LogRequestCount(w)
    \/ LogRequestBytes(w)
    \/ LogRequestAppend(w)
    \/ LogRequestUnlock(w)
    \/ MiddlewareReturn(w)

TickerStep ==
    \/ Tick
    \/ PrintStatsCheck
    \/ PrintStatsLock
    \/ PrintStatsPrint

AcctNext(maxReq, maxStats) ==
    \/ \E w \in Workers : WorkerStep(w, maxReq, maxStats)
    \/ TickerStep

(***************************************************************************)
(* The GET / handler: target URL handling, the page fetch with its         *)
(* redirect policy, and the rewrite pass over the parsed document.         *)
(*                                                                         *)
(* A document is the sequence of its elements that the pass can touch      *)
(* (link, style, script, img, iframe, form, a), in document order; the     *)
(* meta tags of its head are kept apart in `metas`. An element carries its *)
(* URL attribute (href, src or action, by tag), whether it has one, and    *)
(* its text. Text is abstract: "raw" (minifiable), "bad" (the minifier     *)
(* reports an error), "yt" (inline script naming youtube.com or            *)
(* YT.Player), "min" (minified), "" (none).                                *)
(***************************************************************************)
tA == <<"a">>  \* "a"
tHttpASlash == <<"h", "t", "t", "p", ":", "/", "/", "a", "/">>  \* "http://a/"
tYtFeed == <<"h", "t", "t", "p", "s", ":", "/", "/", "w", "w", "w", ".", "y", "o", "u", "t", "u", "b", "e", ".", "c", "o", "m", "/", "f", "e", "e", "d">>  \* "https://www.youtube.com/feed"
tYtWatchAmp == <<"h", "t", "t", "p", "s", ":", "/", "/", "w", "w", "w", ".", "y", "o", "u", "t", "u", "b", "e", ".", "c", "o", "m", "/", "w", "a", "t", "c", "h", "?", "v", "=", "A", "B", "C", "&", "t", "=", "5">>  \* "https://www.youtube.com/watch?v=ABC&t=5"
tYtWatch == <<"h", "t", "t", "p", "s", ":", "/", "/", "w", "w", "w", ".", "y", "o", "u", "t", "u", "b", "e", ".", "c", "o", "m", "/", "w", "a", "t", "c", "h", "?", "v", "=", "A", "B", "C">>  \* "https://www.youtube.com/watch?v=ABC"
tYtWatchBare == <<"y", "o", "u", "t", "u", "b", "e", ".", "c", "o", "m", "/", "w", "a", "t", "c", "h", "?", "v", "=", "A", "B">>  \* "youtube.com/watch?v=AB"
tYtWatchTwice == <<"h", "t", "t", "p", "s", ":", "/", "/", "w", "w", "w", ".", "y", "o", "u", "t", "u", "b", "e", ".", "c", "o", "m", "/", "w", "a", "t", "c", "h", "?", "v", "=", "A", "&", "n", "=", "w", "a", "t", "c", "h", "?", "v", "=", "B">>  \* "https://www.youtube.com/watch?v=A&n=watch?v=B"
tYtWatchEmpty == <<"h", "t", "t", "p", "s", ":", "/", "/", "w", "w", "w", ".", "y", "o", "u", "t", "u", "b", "e", ".", "c", "o", "m", "/", "w", "a", "t", "c", "h", "?", "v", "=", "&", "t", "=", "5">>  \* "https://www.youtube.com/watch?v=&t=5"
tShort == <<"h", "t", "t", "p", "s", ":", "/", "/", "y", "o", "u", "t", "u", ".", "b", "e", "/", "X", "Y", "Z">>  \* "https://youtu.be/XYZ"
tShortQuery == <<"h", "t", "t", "p", "s", ":", "/", "/", "y", "o", "u", "t", "u", ".", "b", "e", "/", "X", "Y", "Z", "?", "t", "=", "1">>  \* "https://youtu.be/XYZ?t=1"
tShortEmpty == <<"h", "t", "t", "p", "s", ":", "/", "/", "y", "o", "u", "t", "u", ".", "b", "e", "/">>  \* "https://youtu.be/"

\* Values of c.Query("url").
TargetURLs ==
    { <<>>, tA, tHttpASlash, tYtFeed, tYtWatchAmp, tYtWatch, tYtWatchBare,
      tYtWatchTwice, tYtWatchEmpty, tShort, tShortQuery, tShortEmpty }

hCss == <<"/", "s", ".", "c", "s", "s">>  \* "/s.css"
hCssAbs == <<"h", "t", "t", "p", ":", "/", "/", "c", "/", "t", ".", "c", "s", "s">>  \* "http://c/t.css"
hIcon == <<"/", "f", ".", "i", "c", "o">>  \* "/f.ico"
hJs == <<"/", "a", ".", "j", "s">>  \* "/a.js"
hJsYT == <<"h", "t", "t", "p", "s", ":", "/", "/", "w", "w", "w", ".", "y", "o", "u", "t", "u", "b", "e", ".", "c", "o", "m", "/", "a", "p", "i", ".", "j", "s">>  \* "https://www.youtube.com/api.js"
hImg == <<"/", "i", ".", "p", "n", "g">>  \* "/i.png"
hFrameYT == <<"h", "t", "t", "p", "s", ":", "/", "/", "w", "w", "w", ".", "y", "o", "u", "t", "u", "b", "e", ".", "c", "o", "m", "/", "e", "m", "b", "e", "d", "/", "x">>  \* "https://www.youtube.com/embed/x"
hFrameOther == <<"h", "t", "t", "p", ":", "/", "/", "b", "/", "y", "o", "u", "t", "u", "b", "e", ".", "c", "o", "m">>  \* "http://b/youtube.com"
hFrameRel == <<"/", "f">>  \* "/f"
hFrameAbs == <<"h", "t", "t", "p", ":", "/", "/", "b", "/", "f">>  \* "http://b/f"
hPost == <<"/", "p", "o", "s", "t">>  \* "/post"
hAbs == <<"h", "t", "t", "p", ":", "/", "/", "b", "/", "p">>  \* "http://b/p"
hHttpd == <<"h", "t", "t", "p", "d">>  \* "httpd"
hJsLink == <<"j", "a", "v", "a", "s", "c", "r", "i", "p", "t", ":", "x">>  \* "javascript:x"
hFragment == <<"#", "s">>  \* "#s"
hPath == <<"/", "p">>  \* "/p"

NoURL == <<>>

Element(tag, rel, has, u, text) ==
    [tag |-> tag, rel |-> rel, has |-> has, url |-> u, text |-> text,
     allowfullscreen |-> "", allow |-> ""]

\* The elements documents are built from.
Elements ==
    { Element("link", "stylesheet", TRUE, hCss, ""),
      Element("link", "stylesheet", TRUE, hCssAbs, ""),
      Element("link", "icon", TRUE, hIcon, ""),
      Element("style", "", FALSE, NoURL, "raw"),
      Element("script", "", TRUE, hJs, ""),
      Element("script", "", TRUE, hJsYT, ""),
      Element("script", "", FALSE, NoURL, "raw"),
      Element("script", "", FALSE, NoURL, "yt"),
      Element("img", "", TRUE, hImg, ""),
      Element("iframe", "", TRUE, hFrameYT, ""),
      Element("iframe", "", TRUE, hFrameOther, ""),
      Element("iframe", "", TRUE, hFrameRel, ""),
      Element("iframe", "", TRUE, hFrameAbs, ""),
      Element("form", "", TRUE, hPost, ""),
      Element("form", "", TRUE, hAbs, ""),
      Element("form", "", TRUE, hHttpd, ""),
      Element("a", "", TRUE, hJsLink, ""),
      Element("a", "", TRUE, hFragment, ""),
      Element("a", "", TRUE, hPath, ""),
      Element("a", "", TRUE, hAbs, ""),
      Element("a", "", TRUE, hHttpd, "") }

\* Bound: elements per document.
MaxElems == 2

RECURSIVE SeqsUpTo(_, _)
SeqsUpTo(S, n) ==
    IF n = 0 THEN {<<>>}
    ELSE LET shorter == SeqsUpTo(S, n - 1)
         IN  shorter \cup {Append(d, e) : d \in {x \in shorter : Len(x) = n - 1}, e \in S}

Documents == SeqsUpTo(Elements, MaxElems)

\* Heads: the meta tags of a fetched page.
MetaSets == { <<>>, <<"viewport:origin", "description", "csp", "charset:origin">> }

\* Bound: the longest redirect chain an upstream answers with; Endless is
\* a redirect loop.
MaxChain == 12
Endless == 0 - 1
Chains == (0..MaxChain) \cup {Endless}

\* The cap of the page fetch's CheckRedirect.
MaxRedirects == 10

\* Outcomes of fetching one external stylesheet or script: the fetch
\* fails, or it returns a body the minifier accepts ("raw") or rejects
\* ("bad").
FetchOutcomes == {"fail", "raw", "bad"}

\* rp.minifier.String(mediatype, text): the minified text, or an error.
MinifyString(text) ==
    IF text = "bad"
    THEN [err |-> TRUE, out |-> ""]
    ELSE [err |-> FALSE, out |-> IF text = "" THEN "" ELSE "min"]

\* fetchAndMinifyCSS / fetchAndMinifyJS: an error when http.Get or the read
\* fails; otherwise the minified body, or the body itself when minification
\* fails.
fetchAndMinify(outcome) ==
    IF outcome = "fail"
    THEN [err |-> TRUE, out |-> ""]
    ELSE LET m == MinifyString(outcome)
         IN  [err |-> FALSE, out |-> IF m.err THEN outcome ELSE m.out]

\* processHead, per element: <base href> and favicon links get an absolute href.
headElement(baseURL, e) ==
    IF (e.tag = "base" \/ (e.tag = "link" /\ e.rel \in {"icon", "shortcut icon"})) /\ e.has
    THEN [e EXCEPT !.url = makeAbsoluteURL(baseURL, e.url)]
    ELSE e

\* Mutant: a stylesheet whose fetch fails is dropped from the page.
cssLink_EmptyOnFail(baseURL, e, outcome) ==
    IF e.tag = "link" /\ e.rel = "stylesheet" /\ e.has
    THEN Element("style", "", FALSE, NoURL, fetchAndMinify(outcome).out)
    ELSE e

\* processCSS, first pass, per element: a stylesheet link is replaced by a
\* <style> with the fetched, minified sheet, unless the fetch failed.
cssLink(baseURL, e, outcome) ==
    IF e.tag = "link" /\ e.rel = "stylesheet" /\ e.has
    THEN LET css == fetchAndMinify(outcome)
         IN  IF ~css.err
             THEN Element("style", "", FALSE, NoURL, css.out)
             ELSE e
    ELSE e

\* processCSS, second pass, per element: inline styles are minified in place.
cssInline(e) ==
    IF e.tag = "style"
    THEN LET m == MinifyString(e.text)
         IN  IF ~m.err THEN [e EXCEPT !.text = m.out] ELSE e
    ELSE e

\* processJS, first pass, per element: a script from youtube.com stays
\* external with an absolute src; any other external script is inlined,
\* unless its fetch failed.
jsScript(baseURL, e, outcome) ==
    IF e.tag = "script" /\ e.has
    THEN IF Contains(e.url, sYoutubeCom)
         THEN [e EXCEPT !.url = makeAbsoluteURL(baseURL, e.url)]
         ELSE LET js == fetchAndMinify(outcome)
              IN  IF ~js.err
                  THEN [e EXCEPT !.has = FALSE, !.url = NoURL, !.text = js.out]
                  ELSE e
    ELSE e

\* processJS, second pass, per element: inline scripts are minified in
\* place, except those naming youtube.com or YT.Player.
jsInline(e) ==
    IF e.tag = "script" /\ ~e.has
    THEN IF e.text = "yt"
         THEN e
         ELSE LET m == MinifyString(e.text)
              IN  IF ~m.err THEN [e EXCEPT !.text = m.out] ELSE e
    ELSE e

\* processImages, per element.
imgElement(baseURL, e) ==
    IF e.tag = "img" /\ e.has
    THEN [e EXCEPT !.url = makeAbsoluteURL(baseURL, e.url)]
    ELSE e

\* processIframes, per element.
iframeElement(baseURL, e) ==
    IF e.tag = "iframe" /\ e.has
    THEN IF Contains(e.url, sYoutubeCom) \/ Contains(e.url, sYoutuBe)
         THEN [e EXCEPT !.allowfullscreen = "true",
                        !.allow = "accelerometer; autoplay; clipboard-write; encrypted-media; gyroscope; picture-in-picture"]
         ELSE [e EXCEPT !.url = makeAbsoluteURL(baseURL, e.url)]
    ELSE e

\* "Process forms", per element.
formElement(baseURL, e) ==
    IF e.tag = "form" /\ e.has
    THEN IF ~HasPrefix(e.url, sHttp)
         THEN [e EXCEPT !.url = sProxy \o makeAbsoluteURL(baseURL, e.url)]
         ELSE [e EXCEPT !.url = sProxy \o e.url]
    ELSE e

\* "Process links", per element.
anchorElement(baseURL, e) ==
    IF e.tag = "a" /\ e.has
    THEN IF HasPrefix(e.url, sJavascript) \/ HasPrefix(e.url, sHash)
         THEN e
         ELSE IF ~HasPrefix(e.url, sHttp)
              THEN [e EXCEPT !.url = sProxy \o makeAbsoluteURL(baseURL, e.url)]
              ELSE [e EXCEPT !.url = sProxy \o e.url]
    ELSE e

\* processMeta: the viewport, charset and CSP metas are removed and the
\* canonical viewport, then the canonical charset, are prepended to the head.
processMeta(ms) ==
    LET keep == SelectSeq(ms, LAMBDA m : m \notin {"viewport:origin", "charset:origin", "csp"})
    IN  <<"charset:UTF-8", "viewport:canonical">> \o keep

\* Whether the first pass of processCSS / processJS fetches for element e.
FetchesCSS(e) == e.tag = "link" /\ e.rel = "stylesheet" /\ e.has
FetchesJS(e) == e.tag = "script" /\ e.has /\ ~Contains(e.url, sYoutubeCom)

\* func extractVideoID(url string) string
extractVideoID_NoAmpCut(u) ==
    IF Contains(u, sWatchFull)
    THEN Split(u, sWatch)[2]
    ELSE IF Contains(u, sShort)
         THEN Split(u, sShort)[2]
         ELSE <<>>

extractVideoID(u) ==
    IF Contains(u, sWatchFull)
    THEN Split(Split(u, sWatch)[2], sAmp)[1]
    ELSE IF Contains(u, sShort)
         THEN Split(u, sShort)[2]
         ELSE <<>>

\* CheckRedirect(req, via): an error once via holds MaxRedirects requests.
CheckRedirect_OffByOne(lenVia) == IF lenVia > MaxRedirects THEN "too many redirects" ELSE "nil"

CheckRedirect(lenVia) == IF lenVia >= MaxRedirects THEN "too many redirects" ELSE "nil"

NoResponse == [status |-> 0, kind |-> "none", Error |-> "", videoID |-> <<>>, content |-> <<>>]

\* c.Render("index", fiber.Map{...}): the host template, status 200.
RenderError_Status500(msg) ==
    [status |-> 500, kind |-> "error", Error |-> msg, videoID |-> <<>>, content |-> <<>>]

RenderError(msg) ==
    [status |-> 200, kind |-> "error", Error |-> msg, videoID |-> <<>>, content |-> <<>>]

RenderHome ==
    [status |-> 200, kind |-> "home", Error |-> "", videoID |-> <<>>, content |-> <<>>]

RenderEmbed(id) ==
    [status |-> 200, kind |-> "embed", Error |-> "", videoID |-> id, content |-> <<>>]

RenderContent(d) ==
    [status |-> 200, kind |-> "content", Error |-> "", videoID |-> <<>>, content |-> d]

Step(name) == steps' = Append(steps, name)

\* The handler returns c.Render(...): the response is written, and the
\* locals of the request (the http client's request list among them) are gone.
Finish(resp) ==
    /\ response' = resp
    /\ hpc' = "done"

Fail(step, msg) ==
    /\ failedAt' = step
    /\ Finish(RenderError(msg))

MapDoc(d, Op(_)) == [i \in DOMAIN d |-> Op(d[i])]

\* GET /: url := c.Query("url"); the home page when it is empty; otherwise
\* the scheme is added when missing, and a youtube.com / youtu.be URL with a
\* video id is answered with the embed fragment.
Route ==
    /\ hpc = "recv"
    /\ IF rawURL = <<>>
       THEN /\ Finish(RenderHome)
            /\ UNCHANGED <<url, videoID>>
       ELSE LET u == IF ~HasPrefix(rawURL, sHttpScheme) /\ ~HasPrefix(rawURL, sHttpsScheme)
                     THEN sHttpScheme \o rawURL
                     ELSE rawURL
                isVideo == Contains(u, sYoutubeCom) \/ Contains(u, sYoutuBe)
                id == IF isVideo THEN extractVideoID(u) ELSE <<>>
            IN  /\ url' = u
                /\ videoID' = id
                /\ IF isVideo /\ id # <<>>
                   THEN Finish(RenderEmbed(id))
                   ELSE /\ hpc' = "newreq"
                        /\ UNCHANGED response
    /\ UNCHANGED <<rawURL, pageFetchVars, pageDocVars, steps, failedAt>>
    /\ UNCHANGED nonPageVars

\* http.NewRequest("GET", url, nil) and the request headers. The upstream's
\* behaviour for this request (how many redirects it will answer with) is
\* fixed here.
NewRequest ==
    /\ hpc = "newreq"
    /\ Step("newreq")
    /\ \E ok \in BOOLEAN :
        IF ok
        THEN /\ hpc' = "do"
             /\ \E c \in Chains : chain' = c /\ hopsLeft' = c
             /\ reqs' = 0
             /\ doErr' = "none"
             /\ UNCHANGED <<response, failedAt>>
        ELSE /\ Fail("newreq", "Error creating request")
             /\ UNCHANGED pageFetchVars
    /\ UNCHANGED <<pageReqVars, pageDocVars>>
    /\ UNCHANGED nonPageVars

\* client.Do(req), one round of its loop: the request is appended to the
\* list of requests made and sent; a network failure (or the 10 s timeout)
\* ends the fetch with an error; a final response ends it; a redirect
\* response is submitted to CheckRedirect with the requests made so far as
\* `via`, and is followed only if that returns nil.
DoSend ==
    /\ hpc = "do"
    /\ steps' = IF reqs = 0 THEN Append(steps, "do") ELSE steps
    /\ reqs' = reqs + 1
    /\ \E net \in {"ok", "fail"} :
        IF net = "fail"
        THEN /\ doErr' = "network"
             /\ hpc' = "do_ret"
             /\ UNCHANGED hopsLeft
        ELSE IF hopsLeft = 0
             THEN /\ doErr' = "nil"
                  /\ hpc' = "do_ret"
                  /\ UNCHANGED hopsLeft
             ELSE LET err == CheckRedirect(reqs + 1)
                  IN  IF err # "nil"
                      THEN /\ doErr' = err
                           /\ hpc' = "do_ret"
                           /\ UNCHANGED hopsLeft
                      ELSE /\ hopsLeft' = IF chain = Endless THEN Endless ELSE hopsLeft - 1
                           /\ UNCHANGED <<doErr, hpc>>
    /\ UNCHANGED <<chain, pageReqVars, pageDocVars, failedAt, response>>
    /\ UNCHANGED nonPageVars

\* resp, err := client.Do(req); if err != nil { return c.Render(... Error) }
DoReturn ==
    /\ hpc = "do_ret"
    /\ IF doErr # "nil"
       THEN Fail("do", "Error fetching page")
       ELSE /\ hpc' = "read"
            /\ UNCHANGED <<failedAt, response>>
    /\ chain' = 0
    /\ hopsLeft' = 0
    /\ reqs' = 0
    /\ doErr' = "none"
    /\ UNCHANGED <<pageReqVars, pageDocVars, steps>>
    /\ UNCHANGED nonPageVars

\* body, err := io.ReadAll(resp.Body)
ReadBody ==
    /\ hpc = "read"
    /\ Step("read")
    /\ \E ok \in BOOLEAN :
        IF ok
        THEN /\ hpc' = "parse"
             /\ UNCHANGED <<failedAt, response>>
        ELSE Fail("read", "Error reading response")
    /\ UNCHANGED <<pageReqVars, pageFetchVars, pageDocVars>>
    /\ UNCHANGED nonPageVars

\* doc, err := goquery.NewDocumentFromReader(...); processor := NewResourceProcessor(url)
Parse ==
    /\ hpc = "parse"
    /\ Step("parse")
    /\ \E ok \in BOOLEAN :
        IF ok
        THEN /\ hpc' = "meta"
             /\ \E d \in Documents : doc' = d /\ docIn' = d
             /\ \E m \in MetaSets : metas' = m
             /\ UNCHANGED <<failedAt, response>>
        ELSE /\ Fail("parse", "Error parsing HTML")
             /\ UNCHANGED <<metas, doc, docIn>>
    /\ UNCHANGED <<pageReqVars, pageFetchVars, cssOutcome, jsOutcome>>
    /\ UNCHANGED nonPageVars

\* processor.processMeta(doc)
ProcessMeta ==
    /\ hpc = "meta"
    /\ Step("meta")
    /\ metas' = processMeta(metas)
    /\ hpc' = "head"
    /\ UNCHANGED <<pageReqVars, pageFetchVars, doc, docIn, cssOutcome, jsOutcome,
                   failedAt, response>>
    /\ UNCHANGED nonPageVars

\* processor.processHead(doc)
ProcessHead ==
    /\ hpc = "head"
    /\ Step("head")
    /\ doc' = MapDoc(doc, LAMBDA e : headElement(url, e))
    /\ hpc' = "css"
    /\ UNCHANGED <<pageReqVars, pageFetchVars, metas, docIn, cssOutcome, jsOutcome,
                   failedAt, response>>
    /\ UNCHANGED nonPageVars

\* processor.processCSS(doc): every stylesheet link is fetched (each fetch
\* with an outcome of its own) and replaced, then every <style> is minified.
\* Its nil error is not looked at.
ProcessCSS ==
    /\ hpc = "css"
    /\ Step("css")
    /\ \E o \in [DOMAIN doc -> FetchOutcomes \cup {"none"}] :
        /\ \A i \in DOMAIN doc : (o[i] = "none") <=> ~FetchesCSS(doc[i])
        /\ cssOutcome' = o
        /\ doc' = [i \in DOMAIN doc |-> cssInline(cssLink(url, doc[i], o[i]))]
    /\ hpc' = "js"
    /\ UNCHANGED <<pageReqVars, pageFetchVars, metas, docIn, jsOutcome, failedAt, response>>
    /\ UNCHANGED nonPageVars

\* processor.processJS(doc): every external script is fetched and inlined
\* (youtube.com scripts stay external), then every inline script is minified.
ProcessJS ==
    /\ hpc = "js"
    /\ Step("js")
    /\ \E o \in [DOMAIN doc -> FetchOutcomes \cup {"none"}] :
        /\ \A i \in DOMAIN doc : (o[i] = "none") <=> ~FetchesJS(doc[i])
        /\ jsOutcome' = o
        /\ doc' = [i \in DOMAIN doc |-> jsInline(jsScript(url, doc[i], o[i]))]
    /\ hpc' = "img"
    /\ UNCHANGED <<pageReqVars, pageFetchVars, metas, docIn, cssOutcome, failedAt, response>>
    /\ UNCHANGED nonPageVars

\* processor.processImages(doc)
ProcessImages ==
    /\ hpc = "img"
    /\ Step("img")
    /\ doc' = MapDoc(doc, LAMBDA e : imgElement(url, e))
    /\ hpc' = "iframe"
    /\ UNCHANGED <<pageReqVars, pageFetchVars, metas, docIn, cssOutcome, jsOutcome,
                   failedAt, response>>
    /\ UNCHANGED nonPageVars

\* processor.processIframes(doc)
ProcessIframes ==
    /\ hpc = "iframe"
    /\ Step("iframe")
    /\ doc' = MapDoc(doc, LAMBDA e : iframeElement(url, e))
    /\ hpc' = "form"
    /\ UNCHANGED <<pageReqVars, pageFetchVars, metas, docIn, cssOutcome, jsOutcome,
                   failedAt, response>>
    /\ UNCHANGED nonPageVars

\* doc.Find("form").Each(...)
ProcessForms ==
    /\ hpc = "form"
    /\ Step("form")
    /\ doc' = MapDoc(doc, LAMBDA e : formElement(url, e))
    /\ hpc' = "anchor"
    /\ UNCHANGED <<pageReqVars, pageFetchVars, metas, docIn, cssOutcome, jsOutcome,
                   failedAt, response>>
    /\ UNCHANGED nonPageVars

\* doc.Find("a[href]").Each(...)
ProcessLinks ==
    /\ hpc = "anchor"
    /\ Step("anchor")
    /\ doc' = MapDoc(doc, LAMBDA e : anchorElement(url, e))
    /\ hpc' = "html"
    /\ UNCHANGED <<pageReqVars, pageFetchVars, metas, docIn, cssOutcome, jsOutcome,
                   failedAt, response>>
    /\ UNCHANGED nonPageVars

\* content, err := doc.Html(); the rewritten document is rendered into the
\* host template.
Serialize ==
    /\ hpc = "html"
    /\ Step("html")
    /\ \E ok \in BOOLEAN :
        IF ok
        THEN /\ Finish(RenderContent(doc))
             /\ UNCHANGED failedAt
        ELSE Fail("html", "Error extracting content")
    /\ UNCHANGED <<pageReqVars, pageFetchVars, pageDocVars>>
    /\ UNCHANGED nonPageVars

\* One request GET /?url=<rawURL> arrives.
PageStart ==
    /\ hpc = "recv"
    /\ rawURL \in TargetURLs
    /\ url = <<>>
    /\ videoID = <<>>
    /\ chain = 0
    /\ hopsLeft = 0
    /\ reqs = 0
    /\ doErr = "none"
    /\ metas = <<>>
    /\ doc = <<>>
    /\ docIn = <<>>
    /\ cssOutcome = <<>>
    /\ jsOutcome = <<>>
    /\ steps = <<>>
    /\ failedAt = "none"
    /\ response = NoResponse

PageIdle ==
    /\ hpc = "idle"
    /\ rawURL = <<>>
    /\ url = <<>>
    /\ videoID = <<>>
    /\ chain = 0
    /\ hopsLeft = 0
    /\ reqs = 0
    /\ doErr = "none"
    /\ metas = <<>>
    /\ doc = <<>>
    /\ docIn = <<>>
    /\ cssOutcome = <<>>
    /\ jsOutcome = <<>>
    /\ steps = <<>>
    /\ failedAt = "none"
    /\ response = NoResponse

PageNext ==
    \/ Route
    \/ NewRequest
    \/ DoSend
    \/ DoReturn
    \/ ReadBody
    \/ Parse
    \/ ProcessMeta
    \/ ProcessHead
    \/ ProcessCSS
    \/ ProcessJS
    \/ ProcessImages
    \/ ProcessIframes
    \/ ProcessForms
    \/ ProcessLinks
    \/ Serialize

(***************************************************************************)
(* C1, C2, C10: request accounting.                                        *)
(***************************************************************************)
\* The log as it reads now.
LogShown == [i \in DOMAIN RequestLog |-> Shown(RequestLog[i])]

RECURSIVE SumSizes(_)
SumSizes(log) ==
    IF log = <<>> THEN 0 ELSE Head(log).Size + SumSizes(Tail(log))

CountOf(log, e) == Cardinality({i \in DOMAIN log : log[i] = e})

RECURSIVE SumOver(_, _)
SumOver(S, f) ==
    IF S = {} THEN 0
    ELSE LET x == CHOOSE y \in S : TRUE IN f[x] + SumOver(S \ {x}, f)

\* logRequest calls that have returned after recording, and their bytes.
CompletedCalls == SumOver(Entries, completed)
CompletedBytes == SumOver(Entries, [e \in Entries |-> e.Size * completed[e]])

\* No logRequest call is between its Lock and its return.
NoRecordInProgress ==
    \A w \in Workers : wpc[w] \notin {"lr_count", "lr_bytes", "lr_append", "lr_unlock"}

Min(a, b) == IF a < b THEN a ELSE b

\* The part of the accounting contract that does not depend on the text of
\* the logged URLs: whenever N logRequest calls have completed (and none is
\* in progress) the counters are N and the sum of the N sizes, the log has N
\* entries with the status and size recorded, and every /debug/stats body
\* holds min(N,10) entries, never a slice out of bounds.
CountersAndLogLength ==
    Enabled =>
        /\ NoRecordInProgress =>
              /\ RequestCount = CompletedCalls
              /\ BytesProcessed = CompletedBytes
              /\ BytesProcessed = SumSizes(RequestLog)
              /\ Len(RequestLog) = CompletedCalls
              /\ \A e \in Entries :
                    Cardinality({i \in DOMAIN RequestLog :
                                    /\ RequestLog[i].Size = e.Size
                                    /\ RequestLog[i].Status = e.Status})
                      = completed[e]
        /\ \A w \in Workers :
              wpc[w] = "stats_ret" =>
                  /\ wResp[w].kind = "json"
                  /\ Len(wResp[w].lastRequests) = Min(Len(RequestLog), SnapshotLimit)
                  /\ wResp[w].requestCount = Len(RequestLog)
                  /\ wResp[w].bytesProcessed = SumSizes(RequestLog)

\* A logged entry whose URL no longer reads as a request URI: the array it
\* points into received a later request.
LoggedURLRewritten ==
    \E i \in DOMAIN RequestLog : Str(RequestLog[i].URL) \notin {uPage, uStats}

\* C1: with accounting enabled, whenever N logRequest calls have completed
\* (and none is in progress), RequestCount = N, BytesProcessed is the sum of
\* the Size fields of the N entries, and the log holds exactly those entries;
\* and every /debug/stats body holds the min(N,10) most recently appended
\* entries in append order (never a slice out of bounds, N = 0 included),
\* with the counters of the same N.
C1_CountersAndSnapshot ==
    Enabled =>
        /\ NoRecordInProgress =>
              /\ RequestCount = CompletedCalls
              /\ BytesProcessed = CompletedBytes
              /\ BytesProcessed = SumSizes(RequestLog)
              /\ Len(RequestLog) = CompletedCalls
              /\ \A e \in Entries : CountOf(LogShown, e) = completed[e]
        /\ \A w \in Workers :
              wpc[w] = "stats_ret" =>
                  /\ wResp[w].kind = "json"
                  /\ LET n == Len(RequestLog)
                         k == Min(n, SnapshotLimit)
                     IN  /\ Len(wResp[w].lastRequests) = k
                         /\ \A i \in 1..k :
                                wResp[w].lastRequests[i] = LogShown[n - k + i]
                         /\ wResp[w].requestCount = n
                         /\ wResp[w].bytesProcessed = SumSizes(RequestLog)

\* C2: with accounting disabled, logRequest and printStats are no-ops: after
\* any sequence of calls (direct ones, requests through the middleware, the
\* printStats caller) the counters and the log are as at start, nobody holds
\* or waits for the accounting lock, and the middleware has built no entry
\* for a request and recorded nothing.
C2_DisabledNoOp ==
    ~Enabled =>
        /\ RequestCount = 0
        /\ BytesProcessed = 0
        /\ RequestLog = <<>>
        /\ holder = NoOne
        /\ tpc \in {"off", "ps_check"}
        /\ \A w \in Workers :
            /\ wpc[w] \in {"idle", "parse", "next", "lr_check", "lr_done"}
            /\ wLogged[w] = 0
            /\ wRoute[w] \in Routes =>
                   (wEntry[w] = NoEntry /\ wpc[w] \in {"parse", "next", "lr_done"})

\* Disabled mode, and a direct logRequest(entry) call has returned while a
\* request went through the middleware.
C2_Witness ==
    /\ ~Enabled
    /\ served > 1
    /\ \E w \in Workers :
        /\ wpc[w] = "lr_done"
        /\ wRoute[w] = "direct"
        /\ Shown(wEntry[w]) \in Entries
    /\ \E w \in Workers :
        /\ wpc[w] = "lr_done"
        /\ wRoute[w] \in Routes

InCriticalSection(w) ==
    wpc[w] \in {"stats_json", "stats_ret", "lr_count", "lr_bytes", "lr_append", "lr_unlock"}

\* C10: no worker (and not the ticker) waits for the mutex while holding it,
\* in particular not the /debug/stats worker when its middleware calls
\* logRequest; whoever holds the mutex is on a path that releases it; a
\* request is recorded only after its handler returned and at most once; and
\* under fair scheduling every request is recorded exactly once after its
\* handler has returned: a /debug/stats request from the moment it reaches
\* its handler (which only takes the lock), any request from the moment
\* c.Next() has returned.
C10_NoDeadlock ==
    /\ [](\A w \in Workers :
            /\ wpc[w] \in {"stats_lock", "lr_lock"} => holder # w
            /\ holder = w => InCriticalSection(w)
            /\ wLogged[w] <= 1
            /\ wpc[w] \in {"parse", "next", "stats_lock", "stats_json", "stats_ret",
                           "after_next"}
                   => wLogged[w] = 0
            /\ wpc[w] = "lr_done" => wLogged[w] = 1)
    /\ [](tpc = "ps_lock" => holder # Ticker)
    /\ [](holder = Ticker => tpc = "ps_print")
    /\ \A w \in Workers :
            /\ (wpc[w] = "next" /\ wRoute[w] = "stats")
                   ~> (wpc[w] = "lr_done" /\ wLogged[w] = 1)
            /\ (wpc[w] = "after_next")
                   ~> (wpc[w] = "lr_done" /\ wLogged[w] = 1)

\* A /debug/stats request is being recorded by its middleware while the
\* other worker and the ticker wait for the mutex.
C10_Witness ==
    \E w \in Workers :
        /\ wRoute[w] = "stats"
        /\ wpc[w] = "lr_unlock"
        /\ holder = w
        /\ tpc = "ps_lock"
        /\ \E v \in Workers \ {w} : wpc[v] \in {"stats_lock", "lr_lock"}

(***************************************************************************)
(* C3: the resolver's contract.                                            *)
(***************************************************************************)
RECURSIVE LeadingSlashes(_)
LeadingSlashes(s) ==
    IF s # <<>> /\ Head(s) = "/" THEN 1 + LeadingSlashes(Tail(s)) ELSE 0

RECURSIVE TrailingSlashes(_)
TrailingSlashes(s) ==
    IF s # <<>> /\ s[Len(s)] = "/"
    THEN 1 + TrailingSlashes(SubSeq(s, 1, Len(s) - 1))
    ELSE 0

StripAllLeading(s) == SubSeq(s, LeadingSlashes(s) + 1, Len(s))
StripAllTrailing(s) == SubSeq(s, 1, Len(s) - TrailingSlashes(s))

IsAbsoluteRef(ref) == HasPrefix(ref, sHttpScheme) \/ HasPrefix(ref, sHttpsScheme)

\* Slashes beyond the first one on a side: the ones a single trim keeps.
Excess(n) == IF n > 0 THEN n - 1 ELSE 0

\* C3 as stated: an absolute ref is returned unchanged for any base;
\* otherwise the result is the base without its trailing slashes, exactly one
\* slash, and the ref without its leading slashes, however many slashes the
\* inputs carry.
C3_ExactlyOneSlash ==
    rDone =>
        IF IsAbsoluteRef(rRef)
        THEN rOut = rRef
        ELSE rOut = StripAllTrailing(rBase) \o sSlash \o StripAllLeading(rRef)

\* C3 amended: an absolute ref is returned unchanged for any base; otherwise
\* the result is the base without its trailing slashes, then one slash plus
\* every trailing slash of the base and leading slash of the ref beyond the
\* first (one slash is trimmed from each side, no more), then the ref without
\* its leading slashes. With at most one slash on each side the join is
\* exactly one slash.
C3_OneSlashPlusExcess ==
    rDone =>
        IF IsAbsoluteRef(rRef)
        THEN rOut = rRef
        ELSE LET tb == TrailingSlashes(rBase)
                 lr == LeadingSlashes(rRef)
             IN  /\ rOut = StripAllTrailing(rBase)
                             \o Slashes(1 + Excess(tb) + Excess(lr))
                             \o StripAllLeading(rRef)
                 /\ HasPrefix(rOut, StripAllTrailing(rBase))
                 /\ (tb <= 1 /\ lr <= 1) =>
                        rOut = StripAllTrailing(rBase) \o sSlash \o StripAllLeading(rRef)

\* A relative ref with one leading slash was joined to a base with one
\* trailing slash.
C3_Witness ==
    /\ rDone
    /\ ~IsAbsoluteRef(rRef)
    /\ TrailingSlashes(rBase) = 1
    /\ LeadingSlashes(rRef) = 1
    /\ rOut = StripAllTrailing(rBase) \o sSlash \o StripAllLeading(rRef)

(***************************************************************************)
(* C4 .. C9: the GET / handler.                                            *)
(***************************************************************************)
Ran(name) == \E i \in DOMAIN steps : steps[i] = name

\* The handler's pipeline, in its fixed order.
Pipeline ==
    <<"newreq", "do", "read", "parse", "meta", "head", "css", "js", "img",
      "iframe", "form", "anchor", "html">>

\* The text of s before the first occurrence of c (all of s without one).
Before(s, c) == IF Index(s, c) = 0 THEN s ELSE SubSeq(s, 1, Index(s, c) - 1)

\* The text of s after the first occurrence of m.
AfterFirst(s, m) == SubSeq(s, Index(s, m) + Len(m), Len(s))

sDotYoutubeCom == <<".", "y", "o", "u", "t", "u", "b", "e", ".", "c", "o", "m">>  \* ".youtube.com"
sDotYoutuBe == <<".", "y", "o", "u", "t", "u", ".", "b", "e">>  \* ".youtu.be"

\* The host of an absolute URL; a relative reference has none.
HostOf(u) ==
    IF HasPrefix(u, sHttpScheme) THEN Before(TrimPrefix(u, sHttpScheme), sSlash)
    ELSE IF HasPrefix(u, sHttpsScheme) THEN Before(TrimPrefix(u, sHttpsScheme), sSlash)
    ELSE <<>>

\* The allow-listed video host and its subdomains.
IsVideoHost(h) ==
    \/ h = sYoutubeCom
    \/ HasSuffix(h, sDotYoutubeCom)
    \/ h = sYoutuBe
    \/ HasSuffix(h, sDotYoutuBe)

FixedAllow == "accelerometer; autoplay; clipboard-write; encrypted-media; gyroscope; picture-in-picture"

\* C4: once the anchor pass has run, every <a href> whose href starts with
\* javascript: or # is as it was parsed, and every other one carries
\* /?url= followed by the href itself when it is an absolute http(s) URL and
\* by resolve(base, href) when it is relative; every <form action> carries
\* /?url= followed by the action itself when absolute and by
\* resolve(base, action) when relative.
C4_AnchorsAndFormsThroughProxy ==
    Ran("anchor") =>
        \A i \in DOMAIN docIn :
            /\ (docIn[i].tag = "a" /\ docIn[i].has) =>
                  IF HasPrefix(docIn[i].url, sJavascript) \/ HasPrefix(docIn[i].url, sHash)
                  THEN doc[i] = docIn[i]
                  ELSE IF IsAbsoluteRef(docIn[i].url)
                       THEN doc[i].url = sProxy \o docIn[i].url
                       ELSE doc[i].url = sProxy \o makeAbsoluteURL(url, docIn[i].url)
            /\ (docIn[i].tag = "form" /\ docIn[i].has) =>
                  IF IsAbsoluteRef(docIn[i].url)
                  THEN doc[i].url = sProxy \o docIn[i].url
                  ELSE doc[i].url = sProxy \o makeAbsoluteURL(url, docIn[i].url)

\* C5: once the iframe pass has run, an <iframe src> whose host is the
\* allow-listed video host keeps its src and has allowfullscreen="true" and
\* the fixed allow string; an iframe on any other host, or with a relative
\* src, has src = resolve(base, src) and the attributes it was parsed with.
C5_IframesByHost ==
    Ran("iframe") =>
        \A i \in DOMAIN docIn :
            (docIn[i].tag = "iframe" /\ docIn[i].has) =>
                IF IsVideoHost(HostOf(docIn[i].url))
                THEN /\ doc[i].url = docIn[i].url
                     /\ doc[i].allowfullscreen = "true"
                     /\ doc[i].allow = FixedAllow
                ELSE /\ doc[i].url = makeAbsoluteURL(url, docIn[i].url)
                     /\ doc[i].allowfullscreen = docIn[i].allowfullscreen
                     /\ doc[i].allow = docIn[i].allow

\* The identifier C6 describes: for a youtube.com/watch?v= URL the text after
\* watch?v= up to the next &, for a youtu.be/ URL the text after the
\* short-link host, otherwise empty.
ExpectedVideoID(u) ==
    IF Contains(u, sWatchFull)
    THEN Before(AfterFirst(u, sWatch), sAmp)
    ELSE IF Contains(u, sShort)
         THEN AfterFirst(u, sShort)
         ELSE <<>>

\* C6: for a target naming youtube.com or youtu.be the identifier extracted is
\* the one described; when it is not empty the request is answered with the
\* embed fragment for it and no pipeline step runs; when it is empty (or the
\* target is no video URL) the request goes on to the generic fetch.
C6_VideoTargets ==
    /\ extractVideoID(tYtWatchAmp) = <<"A", "B", "C">>
    /\ extractVideoID(tShort) = <<"X", "Y", "Z">>
    /\ extractVideoID(tYtFeed) = <<>>
    /\ (hpc # "recv" /\ rawURL # <<>>) =>
        LET isVideo == Contains(url, sYoutubeCom) \/ Contains(url, sYoutuBe)
            id == ExpectedVideoID(url)
        IN  /\ isVideo => videoID = id
            /\ IF isVideo /\ id # <<>>
               THEN /\ hpc = "done"
                    /\ response.kind = "embed"
                    /\ response.status = 200
                    /\ response.videoID = id
                    /\ steps = <<>>
                    /\ doc = <<>>
               ELSE /\ response.kind # "embed"
                    /\ hpc = "newreq" \/ Ran("newreq")

\* The watch URL with a further parameter was answered with the embed
\* fragment of its identifier.
C6_Witness ==
    /\ hpc = "done"
    /\ rawURL = tYtWatchAmp
    /\ response.kind = "embed"
    /\ response.videoID = <<"A", "B", "C">>

\* A video-domain target without identifier went on to the generic fetch.
C6_FallthroughReached ==
    /\ rawURL = tShortEmpty
    /\ Ran("parse")

ErrorMessage(step) ==
    CASE step = "newreq" -> "Error creating request"
      [] step = "do" -> "Error fetching page"
      [] step = "read" -> "Error reading response"
      [] step = "parse" -> "Error parsing HTML"
      [] step = "html" -> "Error extracting content"
      [] OTHER -> "?"

\* C7: when building the request, fetching, reading, parsing or serialising
\* fails, the handler is done at that step (the steps run are the pipeline up
\* to the failing one), and the response is the host template with that
\* step's error message, no content, and status 200; a rewritten document is
\* returned only by a run in which nothing failed; no response has another
\* status than 200.
C7_TopLevelFailure ==
    /\ failedAt \in {"none", "newreq", "do", "read", "parse", "html"}
    /\ failedAt # "none" =>
          /\ hpc = "done"
          /\ response.status = 200
          /\ response.kind = "error"
          /\ response.Error = ErrorMessage(failedAt)
          /\ response.content = <<>>
          /\ steps = SubSeq(Pipeline, 1, Len(steps))
          /\ steps[Len(steps)] = failedAt
    /\ hpc = "done" => response.status = 200
    /\ response.kind = "content" => (failedAt = "none" /\ steps = Pipeline)

\* The page fetch failed and the handler answered with the error page.
C7_Witness ==
    /\ hpc = "done"
    /\ failedAt = "do"
    /\ response.kind = "error"
    /\ response.Error = "Error fetching page"
    /\ steps = <<"newreq", "do">>

\* C8: a stylesheet link or external script whose fetch failed is exactly as
\* it was parsed; each one whose fetch succeeded is inlined (a <style>, or a
\* script without src, holding the minified body, or the body itself when
\* the minifier rejects it); a failed fetch never fails the request: the
\* later passes run (images are made absolute) and, unless serialisation
\* fails, the response is the rewritten document.
C8_ResourceFailureIsolated ==
    /\ Ran("css") =>
          /\ failedAt \in {"none", "html"}
          /\ \A i \in DOMAIN docIn :
                FetchesCSS(docIn[i]) =>
                    /\ cssOutcome[i] \in FetchOutcomes
                    /\ cssOutcome[i] = "fail" => doc[i] = docIn[i]
                    /\ cssOutcome[i] # "fail" =>
                          /\ doc[i].tag = "style"
                          /\ doc[i].text = (IF cssOutcome[i] = "raw" THEN "min" ELSE "bad")
    /\ Ran("js") =>
          \A i \in DOMAIN docIn :
                FetchesJS(docIn[i]) =>
                    /\ jsOutcome[i] \in FetchOutcomes
                    /\ jsOutcome[i] = "fail" => doc[i] = docIn[i]
                    /\ jsOutcome[i] # "fail" =>
                          /\ doc[i].tag = "script"
                          /\ ~doc[i].has
                          /\ doc[i].text = (IF jsOutcome[i] = "raw" THEN "min" ELSE "bad")
    /\ Ran("img") =>
          \A i \in DOMAIN docIn :
                docIn[i].tag = "img" => doc[i].url = makeAbsoluteURL(url, docIn[i].url)
    /\ (hpc = "done" /\ Ran("css") /\ failedAt = "none") =>
          /\ steps = Pipeline
          /\ response.kind = "content"
          /\ response.content = doc

\* A page with one stylesheet whose fetch failed and another resource whose
\* fetch succeeded was returned rewritten: the first link untouched, the
\* other inlined.
C8_Witness ==
    /\ hpc = "done"
    /\ response.kind = "content"
    /\ \E i, j \in DOMAIN docIn :
        /\ i # j
        /\ FetchesCSS(docIn[i])
        /\ cssOutcome[i] = "fail"
        /\ response.content[i] = docIn[i]
        /\ \/ (FetchesCSS(docIn[j]) /\ cssOutcome[j] = "raw" /\ response.content[j].tag = "style")
           \/ (FetchesJS(docIn[j]) /\ jsOutcome[j] = "raw" /\ ~response.content[j].has)

\* C9 as stated: a fetch that does not fail on the network follows a chain
\* of k redirects to its final response when k <= 10 and ends with
\* too-many-redirects when k > 10 (a loop included).
C9_FollowsTenRedirects ==
    (hpc = "do_ret" /\ doErr # "network") =>
        IF chain # Endless /\ chain <= MaxRedirects
        THEN doErr = "nil"
        ELSE doErr = "too many redirects"

\* C9 amended: the fetch never makes more than 10 requests; a fetch that
\* does not fail on the network follows a chain of k redirects to its final
\* response when k <= 9 (k + 1 requests), and ends with too-many-redirects,
\* after exactly 10 requests, when k >= 10 or the chain is a loop.
C9_FollowsNineRedirects ==
    /\ reqs <= MaxRedirects
    /\ (hpc = "do_ret" /\ doErr # "network") =>
        IF chain # Endless /\ chain < MaxRedirects
        THEN doErr = "nil" /\ reqs = chain + 1
        ELSE doErr = "too many redirects" /\ reqs = MaxRedirects

\* A chain of exactly 10 redirects ended with too-many-redirects after the
\* tenth request.
C9_Witness ==
    /\ hpc = "do_ret"
    /\ chain = MaxRedirects
    /\ doErr = "too many redirects"
    /\ reqs = MaxRedirects

(***************************************************************************)
(* Specifications.                                                         *)
(***************************************************************************)
\* The server: request workers behind the debug middleware, and the ticker.
Init == AcctStart(BOOLEAN) /\ ResolveIdle /\ PageIdle

Next == AcctNext(MaxRequests, MaxStatsRequests)

Spec == Init /\ [][Next]_vars

\* The server plus direct callers of the accounting contract
\* (record(entry), tick()) in either mode.
CallsInit == AcctStart(BOOLEAN) /\ ResolveIdle /\ PageIdle /\ PageIdle

CallsNext ==
    \/ AcctNext(CallsMaxRequests, CallsMaxStatsRequests)
    \/ \E w \in Workers : CallLogRequest(w, CallsMaxRequests)
    \/ \E w \in Workers : CallLogRequestReturn(w)
    \/ CallPrintStats

SpecCalls == CallsInit /\ [][CallsNext]_vars

\* The server with accounting enabled, under the fairness its runtime
\* gives: a goroutine that can run its next statement eventually does
\* (weak fairness of every step that is not a Lock), and sync.Mutex hands a
\* waiter the lock once it is starving, so a Lock that is possible again and
\* again eventually succeeds (strong fairness). Requests arriving and the
\* ticker firing are not forced. Neither is the return of a handler that
\* fetches from upstream: http.Get has no timeout (fetchAndMinifyCSS,
\* fetchAndMinifyJS, /yt), so such a handler may wait for ever. The
\* /debug/stats handler makes no outbound call.
LiveInit == AcctStart({TRUE}) /\ ResolveIdle /\ PageIdle

LiveNext == AcctNext(LiveMaxRequests, LiveMaxStatsRequests)

WorkerProgress(w) ==
    \/ ParseRequest(w)
    \/ (wRoute[w] = "stats" /\ CallNext(w))
    \/ StatsJSON(w)
    \/ StatsReturn(w)
    \/ BuildEntry(w)
    \/ LogRequestCheck(w)
    \/ LogRequestCount(w)
    \/ LogRequestBytes(w)
    \/ LogRequestAppend(w)
    \/ LogRequestUnlock(w)
    \/ MiddlewareReturn(w)

LiveFairness ==
    /\ \A w \in Workers :
        /\ WF_vars(WorkerProgress(w))
        /\ SF_vars(StatsLock(w))
        /\ SF_vars(LogRequestLock(w))
    /\ WF_vars(PrintStatsCheck)
    /\ SF_vars(PrintStatsLock)
    /\ WF_vars(PrintStatsPrint)

SpecLive == LiveInit /\ [][LiveNext]_vars /\ LiveFairness

\* One GET /?url=... request, from its arrival to its response.
PageInit == PageStart /\ AcctStart({FALSE}) /\ ResolveIdle

SpecPage == PageInit /\ [][PageNext]_vars

\* The resolver alone, on every (base, ref) pair of the input sets.
ResolveInit == ResolveStart /\ AcctStart({FALSE}) /\ PageIdle

ResolveNext == Resolve

SpecResolve == ResolveInit /\ [][ResolveNext]_vars

====
